---- MODULE Spec2Model ----
(***************************************************************************)
(* Time-Surfer-Proxy (src/main.go): the request handler of a forwarding    *)
(* HTTP proxy.  handleRequest routes a request to fixed-origin mode        *)
(* (geocities.restorativland.org) or archive mode (Wayback Machine),       *)
(* resolves the upstream URL, and forwards with a bounded retry loop that  *)
(* backs off on the process-wide flag retryDelay.                          *)
(*                                                                         *)
(* Go strings are sequences of one-character strings, indexed from 0 as in *)
(* Go; time.Duration is a 64-bit two's complement integer held as four     *)
(* 16-bit limbs, least significant first.                                  *)
(***************************************************************************)
EXTENDS Integers, Sequences, FiniteSets, TLC

\* ------------------------------------------------------------------ bounds
\* concurrent handler goroutines of the net/http server
NumHandlers == 2
\* inbound requests served in one run of the process
MaxRequests == 2
\* largest -max-retries value the process is started with
MaxRetriesFlag == 3

Handlers == 1..NumHandlers

\* ----------------------------------------------------------------- strings
\* F(v), with v evaluated once: the model's "v := ..."
Let(v, F(_)) == CHOOSE r \in {F(b) : b \in {v}} : TRUE

\* s[lo:hi] of Go, 0-based, for 0 <= lo <= hi <= len(s)
Slice(s, lo, hi) == SubSeq(s, lo + 1, hi)

\* strings.HasPrefix
HasPrefix(s, p) == Let(s, LAMBDA a : Len(p) <= Len(a) /\ SubSeq(a, 1, Len(p)) = p)

\* whether p occurs in s at 0-based offset i
OccursAt(s, p, i) == i + Len(p) <= Len(s) /\ SubSeq(s, i + 1, i + Len(p)) = p

\* strings.Index: the 0-based offset of the first occurrence of p, or -1
Index(s, p) ==
    Let(<<s, p>>, LAMBDA a :
    Let({i \in 0..Len(a[1]) : OccursAt(a[1], a[2], i)}, LAMBDA hits :
        IF hits = {} THEN -1 ELSE CHOOSE i \in hits : \A j \in hits : i <= j))

\* strings.Contains
Contains(s, p) == Index(s, p) # -1

\* strings.Replace(s, old, new, -1) for a non-empty old
RECURSIVE ReplaceAll(_, _, _)
ReplaceAll(s, old, new) ==
    Let(s, LAMBDA a :
    Let(Index(a, old), LAMBDA i :
        IF i = -1 THEN a
        ELSE Slice(a, 0, i) \o new \o ReplaceAll(Slice(a, i + Len(old), Len(a)), old, new)))

\* strconv.Itoa / fmt %d of a non-negative integer
RECURSIVE Itoa(_)
Itoa(n) ==
    Let(n, LAMBDA v :
    Let(<<"0", "1", "2", "3", "4", "5", "6", "7", "8", "9">>[(v % 10) + 1], LAMBDA digit :
        IF v < 10 THEN <<digit>> ELSE Itoa(v \div 10) \o <<digit>>))

\* --------------------------------------------------------- time.Duration
Limb == 2 ^ 16

\* the Duration of n nanoseconds, 0 <= n < 2^31
Int64(n) == <<n % Limb, (n \div Limb) % Limb, 0, 0>>

\* d * 2 in 64-bit two's complement (the carry out of the top limb is lost)
Int64Double(d) ==
    LET a == 2 * d[1]
        b == 2 * d[2] + a \div Limb
        c == 2 * d[3] + b \div Limb
        e == 2 * d[4] + c \div Limb
    IN  <<a % Limb, b % Limb, c % Limb, e % Limb>>

Int64IsNegative(d) == d[4] >= Limb \div 2

Int64IsZero(d) == d = <<0, 0, 0, 0>>

\* time.Second, in nanoseconds
Second == 1000000000

\* the default of the -retry-delay flag
DefaultRetryDelay == Int64(1 * Second)

\* ------------------------------------------------------ response rewriting
WaybackToolbarInsert ==
    <<" ","W","A","Y","B","A","C","K"," ","T","O","O","L","B","A","R"," ","I","N","S","E","R",
      "T"," ","-","-",">">>

BeginToolbar == <<"<","!","-","-"," ","B","E","G","I","N">> \o WaybackToolbarInsert

EndToolbar == <<"<","!","-","-"," ","E","N","D">> \o WaybackToolbarInsert

scriptTag ==
    <<"<","s","c","r","i","p","t"," ","s","r","c","=","\"","/","/","a","r","c","h","i","v","e",
      ".","o","r","g","/","i","n","c","l","u","d","e","s","/","a","t","h","e","n","a",".","j",
      "s","\""," ","t","y","p","e","=","\"","t","e","x","t","/","j","a","v","a","s","c","r","i",
      "p","t","\"",">","<","/","s","c","r","i","p","t",">">>

\* the offset added to the end marker's index in removeWaybackToolbar
EndSkip == 36

\* removeWaybackToolbar: [panic |-> TRUE] when html[end+36:] is out of range
removeWaybackToolbar(html) ==
    Let(Index(html, BeginToolbar), LAMBDA start :
    Let(Index(html, EndToolbar), LAMBDA end :
        IF start # -1 /\ end # -1
        THEN IF end + EndSkip > Len(html)
             THEN [panic |-> TRUE, html |-> <<>>]
             ELSE [panic |-> FALSE,
                   html  |-> ReplaceAll(Slice(html, 0, start)
                                          \o Slice(html, end + EndSkip, Len(html)),
                                        scriptTag, <<>>)]
        ELSE [panic |-> FALSE, html |-> ReplaceAll(html, scriptTag, <<>>)]))

\* the pattern <div\s+class="card-image">.*?</div> of the fixed-origin hook
DivOpen == <<"<","d","i","v">>

ClassCardImage ==
    <<"c","l","a","s","s","=","\"","c","a","r","d","-","i","m","a","g","e","\"",">">>

DivClose == <<"<","/","d","i","v",">">>

ScreenshotRemoved ==
    <<"<","!","-","-"," ","S","c","r","e","e","n","s","h","o","t"," ","r","e","m","o","v","e",
      "d"," ","f","o","r"," ","p","e","r","f","o","r","m","a","n","c","e"," ","-","-",">">>

\* the characters \s matches
IsSpace(c) == c \in {" ", "\t", "\n", "\f", "\r"}

\* the length of the run of \s characters of s from 0-based offset i
RECURSIVE SpaceRun(_, _)
SpaceRun(s, i) == IF i < Len(s) /\ IsSpace(s[i + 1]) THEN 1 + SpaceRun(s, i + 1) ELSE 0

\* the end offset of the match of the pattern that starts at offset i, or -1:
\* \s+ takes the whole run of spaces, and .*? stops at the first </div>, which
\* . (any character but a line feed) must reach
CardImageMatchEnd(s, i) ==
    IF ~OccursAt(s, DivOpen, i) THEN -1
    ELSE Let(SpaceRun(s, i + Len(DivOpen)), LAMBDA k :
         Let(i + Len(DivOpen) + k, LAMBDA open :
             IF k = 0 \/ ~OccursAt(s, ClassCardImage, open) THEN -1
             ELSE Let(open + Len(ClassCardImage), LAMBDA from :
                  Let(Slice(s, from, Len(s)), LAMBDA rest :
                  Let(Index(rest, DivClose), LAMBDA c :
                      IF c = -1 \/ Contains(Slice(rest, 0, c), <<"\n">>) THEN -1
                      ELSE from + c + Len(DivClose))))))

\* re.ReplaceAllString(html, "<!-- Screenshot removed for performance -->")
RECURSIVE ReplaceAllCardImage(_)
ReplaceAllCardImage(s) ==
    Let(s, LAMBDA a :
    Let({i \in 0..Len(a) : CardImageMatchEnd(a, i) # -1}, LAMBDA starts :
        IF starts = {} THEN a
        ELSE Let(CHOOSE x \in starts : \A y \in starts : x <= y, LAMBDA i :
             Let(CardImageMatchEnd(a, i), LAMBDA e :
                 Slice(a, 0, i) \o ScreenshotRemoved
                   \o ReplaceAllCardImage(Slice(a, e, Len(a)))))))

\* ------------------------------------------------------------------ net/url
Lower == <<"a","b","c","d","e","f","g","h","i","j","k","l","m","n","o","p","q","r","s","t","u","v","w","x","y","z">>

Upper == <<"A","B","C","D","E","F","G","H","I","J","K","L","M","N","O","P","Q","R","S","T","U","V","W","X","Y","Z">>

Digits == {"0", "1", "2", "3", "4", "5", "6", "7", "8", "9"}

\* the characters of the ASCII codes 32..126, in order (the grave accent, code
\* 96, is written "0x60")
Ascii ==
    <<" ","!","\"","#","$","%","&","'","(",")","*","+",",","-",".","/","0","1","2","3","4","5","6","7",
      "8","9",":",";","<","=",">","?","@","A","B","C","D","E","F","G","H","I","J","K","L","M","N","O",
      "P","Q","R","S","T","U","V","W","X","Y","Z","[","\\","]","^","_","0x60","a","b","c","d","e","f","g",
      "h","i","j","k","l","m","n","o","p","q","r","s","t","u","v","w","x","y","z","{","|","}","~">>

Range(f) == {f[i] : i \in DOMAIN f}

IsLetter(c) == c \in Range(Lower) \cup Range(Upper)

\* strings.ToLower
ToLower(s) ==
    Let(s, LAMBDA a :
        [i \in 1..Len(a) |->
            IF a[i] \in Range(Upper)
            THEN Lower[CHOOSE k \in 1..Len(Upper) : Upper[k] = a[i]]
            ELSE a[i]])

\* strings.Cut
Cut(s, sep) ==
    Let(s, LAMBDA a :
    Let(Index(a, sep), LAMBDA i :
        IF i = -1 THEN [before |-> a, after |-> <<>>, found |-> FALSE]
        ELSE [before |-> Slice(a, 0, i), after |-> Slice(a, i + Len(sep), Len(a)),
              found |-> TRUE]))

\* strings.Split for a non-empty separator
RECURSIVE Split(_, _)
Split(s, sep) ==
    Let(Cut(s, sep), LAMBDA c :
        IF c.found THEN <<c.before>> \o Split(c.after, sep) ELSE <<c.before>>)

\* strings.Join
RECURSIVE Join(_, _)
Join(parts, sep) ==
    Let(parts, LAMBDA a :
        IF a = <<>> THEN <<>>
        ELSE IF Len(a) = 1 THEN a[1]
        ELSE a[1] \o sep \o Join(Tail(a), sep))

\* strings.LastIndex of a one-character string
LastIndex(s, c) ==
    Let(s, LAMBDA a :
    Let({i \in 0..Len(a) - 1 : a[i + 1] = c}, LAMBDA hits :
        IF hits = {} THEN -1 ELSE CHOOSE i \in hits : \A j \in hits : j <= i))

IsHex(c) == c \in Digits \cup {"a", "b", "c", "d", "e", "f", "A", "B", "C", "D", "E", "F"}

\* unhex
HexVal(c) ==
    LET digits == <<"0", "1", "2", "3", "4", "5", "6", "7", "8", "9">>
        lo     == <<"a", "b", "c", "d", "e", "f">>
        up     == <<"A", "B", "C", "D", "E", "F">>
    IN  IF c \in Digits THEN (CHOOSE k \in 1..10 : digits[k] = c) - 1
        ELSE IF c \in Range(lo) THEN 9 + CHOOSE k \in 1..6 : lo[k] = c
        ELSE 9 + CHOOSE k \in 1..6 : up[k] = c

\* whether every % of s starts a %XX escape (unescape reports no EscapeError)
ValidEscapes(s) ==
    Let(s, LAMBDA a :
        \A i \in 1..Len(a) :
            a[i] = "%" => i + 2 <= Len(a) /\ IsHex(a[i + 1]) /\ IsHex(a[i + 2]))

\* an unescape that leaves its input as it is
NoUnescape(s) == s

\* url.QueryUnescape of a string of valid escapes that decode to printable ASCII
RECURSIVE QueryUnescape(_)
QueryUnescape(s) ==
    Let(s, LAMBDA a :
        IF a = <<>> THEN <<>>
        ELSE IF a[1] = "%"
             THEN <<Ascii[16 * HexVal(a[2]) + HexVal(a[3]) - 31]>>
                    \o QueryUnescape(Slice(a, 3, Len(a)))
        ELSE IF a[1] = "+" THEN <<" ">> \o QueryUnescape(Tail(a))
        ELSE <<a[1]>> \o QueryUnescape(Tail(a)))

\* getScheme: [err, scheme, rest]
getScheme(rawURL) ==
    Let(rawURL, LAMBDA a :
    Let({i \in 1..Len(a) : ~(IsLetter(a[i]) \/ a[i] \in Digits \cup {"+", "-", "."})},
        LAMBDA other :
    Let([err |-> FALSE, scheme |-> <<>>, rest |-> a], LAMBDA none :
        IF a = <<>> \/ (~IsLetter(a[1]) /\ a[1] # ":") THEN none
        ELSE IF other = {} THEN none
        ELSE Let(CHOOSE x \in other : \A y \in other : x <= y, LAMBDA i :
                 IF a[i] # ":" THEN none
                 ELSE IF i = 1 THEN [err |-> TRUE, scheme |-> <<>>, rest |-> <<>>]
                 ELSE [err |-> FALSE, scheme |-> Slice(a, 0, i - 1),
                       rest |-> Slice(a, i, Len(a))]))))

\* the characters a host may hold unescaped (shouldEscape in encodeHost mode)
HostChars ==
    Range(Lower) \cup Range(Upper) \cup Digits
      \cup {"!", "$", "&", "'", "(", ")", "*", "+", ",", ";", "=", ":", "[", "]", "<", ">",
            "\"", "-", "_", ".", "~", "%"}

\* parseAuthority and parseHost for an authority without brackets: [err, host]
parseAuthority(authority) ==
    Let(authority, LAMBDA a :
    Let(LastIndex(a, "@"), LAMBDA at :
    Let(IF at < 0 THEN a ELSE Slice(a, at + 1, Len(a)), LAMBDA host :
    Let(LastIndex(host, ":"), LAMBDA colon :
    Let(IF colon = -1 THEN <<>> ELSE Slice(host, colon + 1, Len(host)), LAMBDA port :
        IF (\E i \in 1..Len(port) : port[i] \notin Digits)
           \/ (~ValidEscapes(host))
           \/ (\E i \in 1..Len(host) : host[i] \notin HostChars)
        THEN [err |-> TRUE, host |-> <<>>]
        ELSE [err |-> FALSE, host |-> host])))))

NoURL == [err |-> TRUE, Scheme |-> <<>>, Opaque |-> <<>>, Host |-> <<>>, Path |-> <<>>,
          RawQuery |-> <<>>]

\* url.Parse of a string without "#" and without control characters
urlParse(rawURL) ==
    Let(getScheme(rawURL), LAMBDA sch :
        IF sch.err THEN NoURL
        ELSE
        Let(ToLower(sch.scheme), LAMBDA scheme :
        Let(sch.rest # <<>> /\ sch.rest[Len(sch.rest)] = "?"
              /\ Cardinality({i \in 1..Len(sch.rest) : sch.rest[i] = "?"}) = 1, LAMBDA force :
        Let(Cut(sch.rest, <<"?">>), LAMBDA q :
        Let(IF force THEN Slice(sch.rest, 0, Len(sch.rest) - 1) ELSE q.before, LAMBDA rest :
        Let(IF force THEN <<>> ELSE q.after, LAMBDA query :
        Let(HasPrefix(rest, <<"/">>), LAMBDA slash :
            IF ~slash /\ scheme # <<>>
            THEN [err |-> FALSE, Scheme |-> scheme, Opaque |-> rest, Host |-> <<>>,
                  Path |-> <<>>, RawQuery |-> query]
            ELSE IF ~slash /\ Contains(Cut(rest, <<"/">>).before, <<":">>) THEN NoURL
            ELSE
            Let((scheme # <<>> \/ ~HasPrefix(rest, <<"/", "/", "/">>))
                  /\ HasPrefix(rest, <<"/", "/">>), LAMBDA hasAuth :
            Let(Slice(rest, 2, Len(rest)), LAMBDA after :
            Let(Index(after, <<"/">>), LAMBDA i :
            Let(IF i >= 0 THEN Slice(after, 0, i) ELSE after, LAMBDA auth :
            Let(IF ~hasAuth THEN rest
                ELSE IF i >= 0 THEN Slice(after, i, Len(after)) ELSE <<>>, LAMBDA path :
            Let(IF hasAuth THEN parseAuthority(auth)
                ELSE [err |-> FALSE, host |-> <<>>], LAMBDA host :
                IF host.err \/ ~ValidEscapes(path) THEN NoURL
                ELSE [err |-> FALSE, Scheme |-> scheme, Opaque |-> <<>>,
                      Host |-> host.host, Path |-> path, RawQuery |-> query])))))))))))))

\* url.ParseQuery with its error dropped, as URL.Query does: the key/value pairs
\* in order, a pair with ";" or a bad escape left out
RECURSIVE parseQuery(_)
parseQuery(query) ==
    Let(query, LAMBDA a :
        IF a = <<>> THEN <<>>
        ELSE Let(Cut(a, <<"&">>), LAMBDA c :
             Let(Cut(c.before, <<"=">>), LAMBDA kv :
                 (IF c.before = <<>> \/ Contains(c.before, <<";">>)
                     \/ ~ValidEscapes(kv.before) \/ ~ValidEscapes(kv.after)
                  THEN <<>>
                  ELSE <<[key |-> QueryUnescape(kv.before),
                          value |-> QueryUnescape(kv.after)]>>)
                 \o parseQuery(c.after))))

\* url.Values.Get: the first value of the key, or ""
Get(values, key) ==
    Let(values, LAMBDA vs :
    Let({i \in 1..Len(vs) : vs[i].key = key}, LAMBDA hits :
        IF hits = {} THEN <<>>
        ELSE vs[CHOOSE i \in hits : \A j \in hits : i <= j].value))

\* the bytes escape(s, encodePath) leaves as they are
PathChars ==
    Range(Lower) \cup Range(Upper) \cup Digits
      \cup {"-", "_", ".", "~", "$", "&", "+", ",", "/", ":", ";", "=", "@"}

\* escape(s, encodePath): every other printable ASCII byte becomes %XX
RECURSIVE escapePath(_)
escapePath(s) ==
    Let(s, LAMBDA a :
        IF a = <<>> THEN <<>>
        ELSE (IF a[1] \in PathChars THEN <<a[1]>>
              ELSE Let(31 + CHOOSE k \in 1..Len(Ascii) : Ascii[k] = a[1], LAMBDA code :
                   Let(<<"0","1","2","3","4","5","6","7","8","9","A","B","C","D","E","F">>,
                       LAMBDA hex :
                       <<"%", hex[(code \div 16) + 1], hex[(code % 16) + 1]>>)))
             \o escapePath(Tail(a)))

\* URL.String of a URL without user, opaque part, fragment and ForceQuery
urlString(u) ==
    Let(u, LAMBDA url :
    Let(escapePath(url.Path), LAMBDA path :
    Let((IF url.Scheme # <<>> THEN url.Scheme \o <<":">> ELSE <<>>)
          \o (IF (url.Scheme # <<>> \/ url.Host # <<>>)
                   /\ (url.Host # <<>> \/ url.Path # <<>>)
              THEN <<"/", "/">> ELSE <<>>)
          \o url.Host
          \o (IF path # <<>> /\ path[1] # "/" /\ url.Host # <<>> THEN <<"/">> ELSE <<>>),
        LAMBDA head :
    Let(IF head = <<>> /\ Contains(Cut(path, <<"/">>).before, <<":">>)
        THEN <<".", "/">> ELSE <<>>, LAMBDA dot :
        head \o dot \o path
          \o (IF url.RawQuery # <<>> THEN <<"?">> \o url.RawQuery ELSE <<>>)))))

\* ------------------------------------------------------- extractRedirectURL
redirectParams ==
    <<<<"r","e","d","i","r","e","c","t">>,
      <<"r","e","d","i","r">>,
      <<"n","e","x","t">>,
      <<"u","r","l">>,
      <<"u">>,
      <<"d","e","s","t">>,
      <<"d","e","s","t","i","n","a","t","i","o","n">>,
      <<"f","o","r","w","a","r","d">>,
      <<"r","e","t","u","r","n">>,
      <<"R","e","l","a","y","S","t","a","t","e">>,
      <<"g","o","t","o">>,
      <<"c","a","l","l","b","a","c","k">>,
      <<"c","o","n","t","i","n","u","e">>,
      <<"t","a","r","g","e","t">>>>

Http == <<"h","t","t","p">>

HttpPrefix == <<"h","t","t","p",":","/","/">>

HttpsPrefix == <<"h","t","t","p","s",":","/","/">>

looksLikeURL(v) == HasPrefix(v, HttpPrefix) \/ HasPrefix(v, HttpsPrefix)

extractRedirectURL(redirectURL) ==
    Let(redirectURL, LAMBDA raw :
    Let(urlParse(raw), LAMBDA parsedURL :
        IF parsedURL.err THEN raw
        ELSE
        Let(parseQuery(parsedURL.RawQuery), LAMBDA query :
        Let({i \in 1..Len(redirectParams) :
                Let(Get(query, redirectParams[i]), LAMBDA value :
                    value # <<>> /\ (looksLikeURL(value) \/ HasPrefix(value, <<"/">>)))},
            LAMBDA hits :
            IF hits = {} THEN raw
            ELSE Let(redirectParams[CHOOSE i \in hits : \A j \in hits : i <= j], LAMBDA param :
                 Let(Get(query, param), LAMBDA value :
                     IF looksLikeURL(value) THEN value
                     ELSE parsedURL.Scheme \o <<":", "/", "/">> \o parsedURL.Host
                            \o value))))))

\* ------------------------------------------------------------ getWaybackURL
WaybackPrefix ==
    <<"h","t","t","p",":","/","/","w","e","b",".","a","r","c","h","i","v","e",".","o","r","g",
      "/","w","e","b","/">>

\* JSON values as the decoder hands them to interface{}: the type, the text of
\* a string or number, the elements of an array
JArr(a) == [t |-> "array", s |-> <<>>, a |-> a]

JStr(s) == [t |-> "string", s |-> s, a |-> <<>>]

JNum(s) == [t |-> "number", s |-> s, a |-> <<>>]

JNull == [t |-> "null", s |-> <<>>, a |-> <<>>]

JObj == [t |-> "object", s |-> <<>>, a |-> <<>>]

\* a body that is not JSON
JBad == [t |-> "syntax error", s |-> <<>>, a |-> <<>>]

NilErr == [nil |-> TRUE, msg |-> <<>>]

\* fmt.Errorf / errors.New: an error with its message
Errorf(msg) == [nil |-> FALSE, msg |-> msg]

\* getWaybackURL(originalURL, *date) when the CDX server answers with cdx:
\* [kind |-> "error"] (client.Get fails), else [kind |-> "reply", code, json]
getWaybackURL(originalURL, cdx) ==
    IF cdx.kind = "error" THEN [url |-> <<>>, err |-> Errorf(<<"Get: ">> \o cdx.msg)]
    ELSE IF cdx.code # 200
    THEN [url |-> <<>>, err |-> Errorf(<<"CDX API returned status ">> \o Itoa(cdx.code))]
    ELSE IF cdx.json.t \notin {"array", "null"}
    THEN [url |-> <<>>, err |-> Errorf(<<"json: cannot decode ", cdx.json.t>>)]
    ELSE IF Len(cdx.json.a) < 2
    THEN [url |-> <<>>,
          err |-> Errorf(<<"no archived version found for ">> \o originalURL)]
    ELSE Let(cdx.json.a[2], LAMBDA row :
             IF row.t # "array" \/ Len(row.a) < 2
             THEN [url |-> <<>>, err |-> Errorf(<<"invalid CDX response format">>)]
             ELSE IF row.a[2].t # "string"
             THEN [url |-> <<>>, err |-> Errorf(<<"invalid timestamp in CDX response">>)]
             ELSE [url |-> WaybackPrefix \o row.a[2].s \o <<"/">> \o originalURL,
                   err |-> NilErr])

\* ------------------------------------------- httptest.ResponseRecorder, http
GeocitiesHost ==
    <<"g","e","o","c","i","t","i","e","s",".","r","e","s","t","o","r","a","t","i","v","l","a",
      "n","d",".","o","r","g">>

TextHTML == <<"t","e","x","t","/","h","t","m","l">>

ConnectionRefused ==
    <<"c","o","n","n","e","c","t","i","o","n"," ","r","e","f","u","s","e","d">>

\* a header map, by the keys this program reads or writes; <<>> is an absent key
Header(ctype, clen, location) ==
    [ContentType |-> ctype, ContentLength |-> clen, Location |-> location]

NoHeader == Header(<<>>, <<>>, <<>>)

\* a nil *httptest.ResponseRecorder
NilRecorder == [nil |-> TRUE, Code |-> 0, Header |-> NoHeader, Body |-> <<>>]

\* httptest.NewRecorder(): Code 200, no header, empty body
NewRecorder == [nil |-> FALSE, Code |-> 200, Header |-> NoHeader, Body |-> <<>>]

\* http.StatusText
StatusText(code) ==
    CASE code = 200 -> <<"O","K">>
      [] code = 302 -> <<"F","o","u","n","d">>
      [] code = 404 -> <<"N","o","t"," ","F","o","u","n","d">>
      [] code = 500 -> <<"I","n","t","e","r","n","a","l"," ","S","e","r","v","e","r"," ",
                         "E","r","r","o","r">>
      [] code = 502 -> <<"B","a","d"," ","G","a","t","e","w","a","y">>
      [] OTHER -> <<>>

\* the Status of recorder.Result(): fmt.Sprintf("%03d %s", code, StatusText(code))
ResultStatus(code) == Itoa(code) \o <<" ">> \o StatusText(code)

\* what http.Error(w, msg, code) writes
HttpError(msg, code) ==
    [Code |-> code,
     Header |-> Header(<<"text/plain; charset=utf-8">>, <<>>, <<>>),
     Body |-> msg \o <<"\n">>]

\* the copy of the recorder to the client: headers, WriteHeader(Code), io.Copy
CopyRecorder(rec) == [Code |-> rec.Code, Header |-> rec.Header, Body |-> rec.Body]

\* ------------------------------------------------------ the two ModifyResponse
\* the hook's outcome: the response as rewritten, or a panic inside the hook
Modified(res) == [panic |-> FALSE, error |-> FALSE, res |-> res]

\* the hook returns the error of io.ReadAll(resp.Body)
ReadAllError(res) == [panic |-> FALSE, error |-> TRUE, res |-> res]

\* fixed-origin mode: screenshot strip of HTML bodies; a redirect whose
\* Location does not parse returns before the rewrite
GeocitiesModifyResponse(res) ==
    IF res.StatusCode >= 300 /\ res.StatusCode < 400
         /\ res.Header.Location # <<>> /\ urlParse(res.Header.Location).err
    THEN Modified(res)
    ELSE IF Contains(res.Header.ContentType, TextHTML)
    THEN IF res.BodyErr THEN ReadAllError(res)
         ELSE Let(ReplaceAllCardImage(res.Body), LAMBDA html :
                  Modified([res EXCEPT !.Body = html,
                                       !.Header.ContentLength = Itoa(Len(html))]))
    ELSE Modified(res)

\* archive mode: toolbar strip of HTML bodies
ArchiveModifyResponse(res) ==
    IF Contains(res.Header.ContentType, TextHTML)
    THEN IF res.BodyErr THEN ReadAllError(res)
         ELSE Let(removeWaybackToolbar(res.Body), LAMBDA out :
                  IF out.panic THEN [panic |-> TRUE, error |-> FALSE, res |-> res]
                  ELSE Modified([res EXCEPT !.Body = out.html,
                                            !.Header.ContentLength = Itoa(Len(out.html))]))
    ELSE Modified(res)

ModifyResponse(geocities, res) ==
    Let(res, LAMBDA r :
        IF geocities THEN GeocitiesModifyResponse(r) ELSE ArchiveModifyResponse(r))

\* proxy.ServeHTTP(recorder, r) on a new recorder, under the deferred recover.
\* up is what the upstream does on this attempt:
\*   [kind |-> "error"]: the round trip fails; the proxy's ErrorHandler writes 502
\*   [kind |-> "reply", res]: it answers res.  When reading res.Body fails
\*     (BodyErr), a hook that reads the body returns the error and the
\*     ErrorHandler writes 502; otherwise the body copy fails after the header
\*     is written and the proxy panics (ErrAbortHandler)
\* The result is the recorder afterwards and whether a panic was recovered.
ServeHTTP(geocities, up) ==
    IF up.kind = "error"
    THEN [recorder |-> [NewRecorder EXCEPT !.Code = 502], panic |-> FALSE]
    ELSE Let(ModifyResponse(geocities, up.res), LAMBDA hook :
             IF hook.panic THEN [recorder |-> NewRecorder, panic |-> TRUE]
             ELSE IF hook.error
             THEN [recorder |-> [NewRecorder EXCEPT !.Code = 502], panic |-> FALSE]
             ELSE [recorder |-> [nil |-> FALSE, Code |-> hook.res.StatusCode,
                                 Header |-> hook.res.Header,
                                 Body |-> IF hook.res.BodyErr THEN <<>> ELSE hook.res.Body],
                   panic |-> hook.res.BodyErr])

\* a mode test that takes only the fixed origin's own name
HostEquals(r) == r.Host = GeocitiesHost

\* ----------------------------------------------------------------- routing
\* line 146: the request is for the fixed origin
isGeocitiesRequest(r) == Contains(r.Host, GeocitiesHost) \/ r.Host = GeocitiesHost

\* a Director that leaves the scheme and host of the inbound URL in place
GeocitiesTargetInbound(r) ==
    [err |-> FALSE, Scheme |-> r.URL.Scheme, Opaque |-> <<>>, Host |-> r.URL.Host,
     Path |-> IF r.URL.Path = <<>> THEN <<"/">> ELSE r.URL.Path,
     RawQuery |-> r.URL.RawQuery]

\* the Director of fixed-origin mode: the URL each attempt is sent to
GeocitiesTarget(r) ==
    [err |-> FALSE, Scheme |-> <<"h","t","t","p","s">>, Opaque |-> <<>>,
     Host |-> GeocitiesHost,
     Path |-> IF r.URL.Path = <<>> THEN <<"/">> ELSE r.URL.Path,
     RawQuery |-> r.URL.RawQuery]

\* lines 326-333: the absolute form of the inbound URL
OriginalURL(r) ==
    Let(urlString(r.URL), LAMBDA u :
        IF HasPrefix(u, Http) THEN u ELSE HttpPrefix \o r.Host \o u)

\* lines 329-380: archive-mode resolution when the CDX server answers cdx.
\* lookups are the destinations getWaybackURL was called with, in order.
Lookup(dest, cdx) ==
    Let(dest, LAMBDA d :
    Let(getWaybackURL(d, cdx), LAMBDA got :
        [lookups |-> <<d>>, err |-> got.err, waybackURL |-> got.url]))

ResolveArchive(r, cdx) ==
    Let(OriginalURL(r), LAMBDA originalURL :
    Let(HasPrefix(urlString(r.URL), WaybackPrefix), LAMBDA isWaybackURL :
    Let([lookups |-> <<>>, err |-> NilErr, waybackURL |-> originalURL], LAMBDA reuse :
        IF isWaybackURL
        THEN Let(Split(originalURL, <<"/">>), LAMBDA parts :
                 IF Len(parts) >= 7
                 THEN Let(HttpPrefix \o Join(SubSeq(parts, 7, Len(parts)), <<"/">>),
                          LAMBDA wrapped :
                      Let(extractRedirectURL(wrapped), LAMBDA redirectURL :
                          IF redirectURL # wrapped THEN Lookup(redirectURL, cdx)
                          ELSE reuse))
                 ELSE reuse)
        ELSE Lookup(extractRedirectURL(originalURL), cdx))))

\* ---------------------------------------------------------------- the inputs
ExampleCom == <<"e","x","a","m","p","l","e",".","c","o","m">>

OtherPage ==
    <<"h","t","t","p","s",":","/","/","o","t","h","e","r",".","e","x","a","m","p","l","e","/","p","a","g","e">>

Timestamp14 == <<"2","0","0","2","0","4","0","5","1","2","3","0","0","0">>

WebArchiveOrg == <<"w","e","b",".","a","r","c","h","i","v","e",".","o","r","g">>

PageHTML == <<"/","n","e","i","g","h","b","o","r","h","o","o","d","/","p","a","g","e",".","h","t","m","l">>

\* the query redirect=https://other.example/page
RedirectQuery == redirectParams[1] \o <<"=">> \o OtherPage

\* the path of an archive URL that wraps dest
ArchivedPath(dest) == <<"/","w","e","b","/">> \o Timestamp14 \o <<"/">> \o dest

URL(scheme, host, path, query) ==
    [Scheme |-> scheme, Host |-> host, Path |-> path, RawQuery |-> query]

\* a page of the fixed origin, asked for in origin form
ReqGeocities == [Host |-> GeocitiesHost, URL |-> URL(<<>>, <<>>, PageHTML, <<>>)]

\* the fixed origin through a subdomain, in absolute form with an empty path
ReqGeocitiesRoot ==
    [Host |-> <<"w","w","w",".">> \o GeocitiesHost,
     URL  |-> URL(Http, <<"w","w","w",".">> \o GeocitiesHost, <<>>, <<"q","=","1">>)]

\* http://example.com/
ReqPlain == [Host |-> ExampleCom, URL |-> URL(Http, ExampleCom, <<"/">>, <<>>)]

\* /x in origin form, Host example.com
ReqOriginForm == [Host |-> ExampleCom, URL |-> URL(<<>>, <<>>, <<"/","x">>, <<>>)]

\* a redirector: http://example.com/login?redirect=https://other.example/page
ReqRedirect ==
    [Host |-> ExampleCom,
     URL  |-> URL(Http, ExampleCom, <<"/","l","o","g","i","n">>, RedirectQuery)]

\* an archive URL wrapping http://example.com/x
ReqArchived ==
    [Host |-> WebArchiveOrg,
     URL  |-> URL(Http, WebArchiveOrg,
                  ArchivedPath(HttpPrefix \o ExampleCom \o <<"/","x">>), <<>>)]

\* an archive URL wrapping http://example.com/x?redirect=https://other.example/page
ReqArchivedRedirect ==
    [Host |-> WebArchiveOrg,
     URL  |-> URL(Http, WebArchiveOrg,
                  ArchivedPath(HttpPrefix \o ExampleCom \o <<"/","x">>), RedirectQuery)]

\* an archive URL wrapping example.com?redirect=https://other.example/page
ReqArchivedBare ==
    [Host |-> WebArchiveOrg,
     URL  |-> URL(Http, WebArchiveOrg, ArchivedPath(ExampleCom), RedirectQuery)]

\* an archive URL that wraps nothing
ReqArchivedShort ==
    [Host |-> WebArchiveOrg, URL |-> URL(Http, WebArchiveOrg, ArchivedPath(<<>>), <<>>)]

Requests ==
    {ReqGeocities, ReqGeocitiesRoot, ReqPlain, ReqOriginForm, ReqRedirect, ReqArchived,
     ReqArchivedRedirect, ReqArchivedBare, ReqArchivedShort}

\* the CDX server's answers to one lookup
CdxReply(code, json) == [kind |-> "reply", code |-> code, json |-> json]

CdxHeaderRow == JArr(<<JStr(<<"urlkey">>), JStr(<<"timestamp">>)>>)

CdxRow(timestamp) == JArr(<<JStr(<<"com,example)/">>), timestamp, JStr(OtherPage)>>)

\* the CDX answer that names a snapshot
CdxFound == CdxReply(200, JArr(<<CdxHeaderRow, CdxRow(JStr(Timestamp14))>>))

\* the CDX server cannot be reached
CdxDown == [kind |-> "error", msg |-> <<"dial tcp: i/o timeout">>]

CdxReplies ==
    {CdxDown,
     CdxReply(503, JNull),
     CdxReply(200, JBad),
     CdxReply(200, JObj),
     CdxReply(200, JNull),
     CdxReply(200, JArr(<<>>)),
     CdxReply(200, JArr(<<CdxHeaderRow>>)),
     CdxReply(200, JArr(<<CdxHeaderRow, JStr(Timestamp14)>>)),
     CdxReply(200, JArr(<<CdxHeaderRow, JArr(<<JStr(<<"com,example)/">>)>>)>>)),
     CdxReply(200, JArr(<<CdxHeaderRow, CdxRow(JNum(<<"2","0","0","2">>))>>)),
     CdxFound,
     CdxReply(200, JArr(<<CdxHeaderRow, CdxRow(JStr(<<"-">>))>>))}

\* what the upstream does on one forwarding attempt
Reply(code, ctype, body) ==
    [kind |-> "reply",
     res  |-> [StatusCode |-> code, Header |-> Header(ctype, Itoa(Len(body)), <<>>),
               Body |-> body, BodyErr |-> FALSE]]

Aborted(up) == [up EXCEPT !.res.BodyErr = TRUE]

\* the same answer in chunked transfer encoding: no Content-Length
Chunked(up) == [up EXCEPT !.res.Header.ContentLength = <<>>]

\* the same answer with a Location header
Located(up, location) == [up EXCEPT !.res.Header.Location = location]

\* an archived page: text, the toolbar, a line feed, text
ToolbarPage ==
    <<"a">> \o BeginToolbar \o <<"t">> \o EndToolbar \o <<"\n", "b">>

\* an archived page that ends with the end marker
ToolbarAtEnd == <<"a">> \o BeginToolbar \o <<"t">> \o EndToolbar

\* a directory listing with one screenshot
CardPage ==
    <<"a">> \o DivOpen \o <<" ">> \o ClassCardImage \o <<"i">> \o DivClose \o <<"b">>

ImageGIF == <<"i","m","a","g","e","/","g","i","f">>

\* the round trip to the upstream fails
UpstreamDown == [kind |-> "error"]

\* a Location that url.Parse rejects (missing protocol scheme)
BadLocation == <<":", "f", "o", "o">>

UpstreamReplies ==
    {UpstreamDown,
     Reply(200, TextHTML, ToolbarPage),
     Reply(200, TextHTML, ToolbarAtEnd),
     Reply(200, TextHTML, CardPage),
     Reply(302, <<>>, <<>>),
     Reply(404, TextHTML, <<"n","o">>),
     Reply(500, ImageGIF, <<"G","I","F">>),
     Reply(502, TextHTML, <<"b","a","d">>),
     Aborted(Reply(200, ImageGIF, <<"G","I","F">>)),
     Aborted(Reply(502, TextHTML, <<"b","a","d">>)),
     Aborted(Reply(200, TextHTML, CardPage)),
     Chunked(Reply(200, TextHTML, ToolbarPage)),
     Located(Reply(302, TextHTML, CardPage), BadLocation),
     Chunked(Located(Reply(302, TextHTML, CardPage), BadLocation))}

\* -------------------------------------------------------------------- state
VARIABLES
    maxRetries,   \* the -max-retries flag
    retryDelay,   \* the -retry-delay flag, which the retry loops double in place
    served,       \* inbound requests accepted so far
    pc,           \* per handler goroutine: where it is in handleRequest
    req,          \* r, the inbound request
    targetURL,    \* the URL the Director sends each attempt to
    attempt,      \* the loop counter
    shouldRetry,
    lastErr,
    recorder,
    loaded,       \* the value of *retryDelay read by "*retryDelay *= 2"
    w,            \* the responses written to the client
    crashed,      \* a panic left handleRequest
    lookups,      \* the destinations getWaybackURL was called with
    sleeps,       \* the durations of the time.Sleep calls
    attempts,     \* per attempt made: the recorder's code and whether it panicked
    cdxResp,      \* the CDX server's answer to the handler's lookup
    waybackURL,
    err,          \* the error of the resolution
    upstream,     \* what the upstream did on the handler's last attempt
    disconnected, \* the inbound client has gone: r.Context() is cancelled
    call          \* a call of one of the pure functions: its argument and result

vars == <<maxRetries, retryDelay, served, pc, req, targetURL, attempt, shouldRetry,
          lastErr, recorder, loaded, w, crashed, lookups, sleeps, attempts, cdxResp,
          waybackURL, err, upstream, disconnected, call>>

\* what archive-mode resolution leaves behind
resolution == <<cdxResp, waybackURL, err>>

\* what only an attempt or the client changes
outside == <<upstream, disconnected>>

NoRequest == [Host |-> <<>>, URL |-> URL(<<>>, <<>>, <<>>, <<>>)]

\* no CDX answer: the handler made no lookup
NoCdx == [kind |-> "none"]

\* no upstream outcome: the handler made no attempt
NoUpstream == [kind |-> "none"]

\* no call of a pure function
NoCall == [fn |-> "none", arg |-> <<>>, done |-> TRUE, panic |-> FALSE, out |-> <<>>]

\* the process after flag.Parse with the default -retry-delay: no request yet
Started ==
    /\ retryDelay = DefaultRetryDelay
    /\ served = 0
    /\ pc = [h \in Handlers |-> "idle"]
    /\ req = [h \in Handlers |-> NoRequest]
    /\ targetURL = [h \in Handlers |-> NoURL]
    /\ attempt = [h \in Handlers |-> 0]
    /\ shouldRetry = [h \in Handlers |-> FALSE]
    /\ lastErr = [h \in Handlers |-> NilErr]
    /\ recorder = [h \in Handlers |-> NilRecorder]
    /\ loaded = [h \in Handlers |-> DefaultRetryDelay]
    /\ w = [h \in Handlers |-> <<>>]
    /\ crashed = [h \in Handlers |-> FALSE]
    /\ lookups = [h \in Handlers |-> <<>>]
    /\ sleeps = [h \in Handlers |-> <<>>]
    /\ attempts = [h \in Handlers |-> <<>>]
    /\ cdxResp = [h \in Handlers |-> NoCdx]
    /\ waybackURL = [h \in Handlers |-> <<>>]
    /\ err = [h \in Handlers |-> NilErr]
    /\ upstream = [h \in Handlers |-> NoUpstream]
    /\ disconnected = [h \in Handlers |-> FALSE]

Init ==
    /\ maxRetries \in 0..MaxRetriesFlag
    /\ call = NoCall
    /\ Started

\* a loop head that lets one more iteration through
LoopPcInclusive(n) ==
    IF n <= maxRetries THEN (IF n > 0 THEN "sleep" ELSE "serve") ELSE "final"

\* the loop head "attempt < *maxRetries" and "if attempt > 0" for counter n
LoopPc(n) ==
    IF n < maxRetries THEN (IF n > 0 THEN "sleep" ELSE "serve") ELSE "final"

\* a router that forwards to the inbound URL when the resolution fails
RouteOnError(r, cdx) ==
    Let(isGeocitiesRequest(r), LAMBDA geo :
    Let(ResolveArchive(r, cdx), LAMBDA got :
        [geo |-> geo, lookups |-> IF geo THEN <<>> ELSE got.lookups,
         waybackURL |-> IF geo THEN <<>> ELSE got.waybackURL,
         err |-> IF geo THEN NilErr ELSE got.err,
         url |-> IF geo THEN GeocitiesTarget(r) ELSE urlParse(OriginalURL(r)),
         fail |-> <<>>]))

\* handleRequest up to the retry loop, for request r when the CDX server answers
\* cdx: the mode, the lookups made, the URL the proxy is set up for, and the
\* response written when the handler returns before the loop
Route(r, cdx) ==
    Let(isGeocitiesRequest(r), LAMBDA geo :
        IF geo THEN [geo |-> TRUE, lookups |-> <<>>, waybackURL |-> <<>>, err |-> NilErr,
                     url |-> GeocitiesTarget(r), fail |-> <<>>]
        ELSE
        Let(ResolveArchive(r, cdx), LAMBDA got :
            IF ~got.err.nil
            THEN [geo |-> FALSE, lookups |-> got.lookups, waybackURL |-> <<>>,
                  err |-> got.err, url |-> NoURL,
                  fail |-> <<HttpError(<<"Error finding archived version: ">>
                                         \o got.err.msg, 500)>>]
            ELSE Let(urlParse(got.waybackURL), LAMBDA url :
                     IF url.err
                     THEN [geo |-> FALSE, lookups |-> got.lookups,
                           waybackURL |-> got.waybackURL, err |-> Errorf(<<"parse">>),
                           url |-> NoURL,
                           fail |-> <<HttpError(<<"Error parsing Wayback URL">>, 500)>>]
                     ELSE [geo |-> FALSE, lookups |-> got.lookups,
                           waybackURL |-> got.waybackURL, err |-> NilErr, url |-> url,
                           fail |-> <<>>])))

\* Route, IsGeocities and ServeHTTP over the inputs, evaluated once
Routes == [r \in Requests, cdx \in CdxReplies |-> Route(r, cdx)]

IsGeocities == [r \in Requests \cup {NoRequest} |-> isGeocitiesRequest(r)]

Served == [geo \in BOOLEAN, up \in UpstreamReplies |-> ServeHTTP(geo, up)]

\* the start of handleRequest: a goroutine takes the request r
Begin(h, r, cdx, max) ==
    LET route == Routes[r, cdx]
    IN  /\ pc[h] \in {"idle", "done"}
        /\ served < max
        /\ upstream' = [upstream EXCEPT ![h] = NoUpstream]
        /\ disconnected' = [disconnected EXCEPT ![h] = FALSE]
        /\ served' = served + 1
        /\ req' = [req EXCEPT ![h] = r]
        /\ lookups' = [lookups EXCEPT ![h] = route.lookups]
        /\ cdxResp' = [cdxResp EXCEPT ![h] = IF route.lookups = <<>> THEN NoCdx ELSE cdx]
        /\ waybackURL' = [waybackURL EXCEPT ![h] = route.waybackURL]
        /\ err' = [err EXCEPT ![h] = route.err]
        /\ targetURL' = [targetURL EXCEPT ![h] = route.url]
        /\ w' = [w EXCEPT ![h] = route.fail]
        /\ pc' = [pc EXCEPT ![h] = IF route.fail = <<>> THEN LoopPc(0) ELSE "done"]
        /\ attempt' = [attempt EXCEPT ![h] = 0]
        /\ shouldRetry' = [shouldRetry EXCEPT ![h] = FALSE]
        /\ lastErr' = [lastErr EXCEPT ![h] = NilErr]
        /\ recorder' = [recorder EXCEPT ![h] = NilRecorder]
        /\ crashed' = [crashed EXCEPT ![h] = FALSE]
        /\ sleeps' = [sleeps EXCEPT ![h] = <<>>]
        /\ attempts' = [attempts EXCEPT ![h] = <<>>]
        /\ UNCHANGED <<call, maxRetries, retryDelay, loaded>>

\* time.Sleep(*retryDelay)
Sleep(h) ==
    /\ pc[h] = "sleep"
    /\ sleeps' = [sleeps EXCEPT ![h] = Append(@, retryDelay)]
    /\ pc' = [pc EXCEPT ![h] = "load"]
    /\ UNCHANGED <<call, maxRetries, retryDelay, served, req, targetURL, attempt, shouldRetry,
                   lastErr, recorder, loaded, w, crashed, lookups, attempts, resolution, outside>>

\* "*retryDelay *= 2", the read: the flag is shared and unsynchronised
BackoffLoad(h) ==
    /\ pc[h] = "load"
    /\ loaded' = [loaded EXCEPT ![h] = retryDelay]
    /\ pc' = [pc EXCEPT ![h] = "store"]
    /\ UNCHANGED <<call, maxRetries, retryDelay, served, req, targetURL, attempt, shouldRetry,
                   lastErr, recorder, w, crashed, lookups, sleeps, attempts, resolution, outside>>

\* "*retryDelay *= 2", the write
BackoffStore(h) ==
    /\ pc[h] = "store"
    /\ retryDelay' = Int64Double(loaded[h])
    /\ pc' = [pc EXCEPT ![h] = "serve"]
    /\ UNCHANGED <<call, maxRetries, served, req, targetURL, attempt, shouldRetry, lastErr,
                   recorder, loaded, w, crashed, lookups, sleeps, attempts, resolution, outside>>

\* a success test that takes only 2xx
IsSuccess2xx(code) == code >= 200 /\ code < 300

\* lines 271 and 455: HTTP 200-399 are all valid responses
IsSuccess(code) == code >= 200 /\ code < 400

\* a retry test that takes every 5xx
IsRetryable5xx(code) == code >= 500

\* lines 289 and 468: only retry on connection-related errors
IsRetryable(code) == code = 502 \/ Contains(ResultStatus(code), ConnectionRefused)

Retryable == [code \in {Served[k].recorder.Code : k \in DOMAIN Served} |-> IsRetryable(code)]

\* one iteration of the retry loop after the back-off: a new recorder, the
\* proxy call under recover, and the classification of recorder.Result()
Attempt(h, up) ==
    LET out  == Served[IsGeocities[req[h]], up]
        code == out.recorder.Code
    IN  /\ pc[h] = "serve"
        \* the outbound request carries r.Context(): once the client has gone the
        \* round trip fails at once
        /\ disconnected[h] => up = UpstreamDown
        /\ upstream' = [upstream EXCEPT ![h] = up]
        /\ recorder' = [recorder EXCEPT ![h] = out.recorder]
        /\ attempts' = [attempts EXCEPT ![h] = Append(@, [code |-> code, panic |-> out.panic])]
        /\ IF IsSuccess(code)
           THEN /\ w' = [w EXCEPT ![h] = Append(@, CopyRecorder(out.recorder))]
                /\ lastErr' = [lastErr EXCEPT ![h] =
                                  IF out.panic THEN Errorf(<<"proxy panic: ">>) ELSE @]
                /\ pc' = [pc EXCEPT ![h] = "done"]
                /\ UNCHANGED <<shouldRetry, attempt>>
           ELSE /\ lastErr' = [lastErr EXCEPT ![h] =
                                  Errorf(<<"proxy returned status ">> \o Itoa(code))]
                /\ w' = w
                /\ IF Retryable[code]
                   THEN /\ shouldRetry' = [shouldRetry EXCEPT ![h] = TRUE]
                        /\ attempt' = [attempt EXCEPT ![h] = @ + 1]
                        /\ pc' = [pc EXCEPT ![h] = LoopPc(attempt[h] + 1)]
                   ELSE /\ pc' = [pc EXCEPT ![h] = "final"]
                        /\ UNCHANGED <<shouldRetry, attempt>>
        /\ UNCHANGED <<call, maxRetries, retryDelay, served, req, targetURL, loaded, crashed,
                       lookups, sleeps, resolution, disconnected>>

\* the message of the synthetic 502, by mode
FailedToConnect(geocities) ==
    (IF geocities THEN <<"Failed to connect to geocities.restorativland.org after ">>
     ELSE <<"Failed to connect to archived content after ">>)
      \o Itoa(maxRetries) \o <<" attempts">>

\* the message of the synthetic 500, by mode
ErrorProxying(geocities, e) ==
    (IF geocities THEN <<"Error proxying request to geocities.restorativland.org: ">>
     ELSE <<"Error proxying request: ">>) \o e.msg

\* "Handle final result", after the loop
Final(h) ==
    LET geo == IsGeocities[req[h]]
    IN  /\ pc[h] = "final"
        /\ pc' = [pc EXCEPT ![h] = "done"]
        /\ IF shouldRetry[h] /\ ~lastErr[h].nil
           THEN /\ w' = [w EXCEPT ![h] = Append(@, HttpError(FailedToConnect(geo), 502))]
                /\ crashed' = crashed
           ELSE IF ~recorder[h].nil
           THEN /\ w' = [w EXCEPT ![h] = Append(@, CopyRecorder(recorder[h]))]
                /\ crashed' = crashed
           ELSE IF lastErr[h].nil
           \* lastErr.Error() on a nil error: a nil dereference leaves the handler
           THEN /\ crashed' = [crashed EXCEPT ![h] = TRUE]
                /\ w' = w
           ELSE /\ w' = [w EXCEPT ![h] =
                            Append(@, HttpError(ErrorProxying(geo, lastErr[h]), 500))]
                /\ crashed' = crashed
        /\ UNCHANGED <<call, maxRetries, retryDelay, served, req, targetURL, attempt, shouldRetry,
                       lastErr, recorder, loaded, lookups, sleeps, attempts, resolution, outside>>

\* one step of handler h when the clients send the requests of rs and the CDX
\* server answers from cs
Step(h, rs, cs, us, max) ==
    \/ \E r \in rs, cdx \in cs : Begin(h, r, cdx, max)
    \/ Sleep(h)
    \/ BackoffLoad(h)
    \/ BackoffStore(h)
    \/ \E up \in us : Attempt(h, up)
    \/ Final(h)

\* the inbound client disconnects while its request is being handled: nothing
\* in handleRequest reads r.Context()
Disconnect(h) ==
    /\ pc[h] \notin {"idle", "done"}
    /\ ~disconnected[h]
    /\ disconnected' = [disconnected EXCEPT ![h] = TRUE]
    /\ UNCHANGED <<call, maxRetries, retryDelay, served, pc, req, targetURL, attempt,
                   shouldRetry, lastErr, recorder, loaded, w, crashed, lookups, sleeps,
                   attempts, resolution, upstream>>

\* concurrent handlers, one request of each mode, a CDX server that answers or
\* is unreachable
Next ==
    \E h \in Handlers :
        \/ Step(h, {ReqGeocities, ReqPlain}, {CdxFound, CdxDown},
                {UpstreamDown, Reply(404, TextHTML, <<"n","o">>)}, MaxRequests)
        \/ Disconnect(h)

Spec == Init /\ [][Next]_vars

\* one handler, every request and every CDX answer
RouterNext == Step(1, Requests, CdxReplies, UpstreamReplies, MaxRequests)

SpecRouter == Init /\ [][RouterNext]_vars

\* ------------------------------------------------ the pure functions, called
\* segments a body or a query is put together from, at most
MaxSegments == 4

\* the sequences of at most n elements of S
SeqsUpTo(S, n) == UNION {[1..k -> S] : k \in 0..n}

\* the concatenation of the strings of a sequence
RECURSIVE Flatten(_)
Flatten(segs) == IF segs = <<>> THEN <<>> ELSE Head(segs) \o Flatten(Tail(segs))

\* a call that has not run yet
Pending(fn, arg) == [fn |-> fn, arg |-> arg, done |-> FALSE, panic |-> FALSE, out |-> <<>>]

\* bodies for removeWaybackToolbar: text, the two markers and the script tag
ToolbarSegments == {<<"a">>, BeginToolbar, EndToolbar, scriptTag}

ToolbarCalls ==
    {Pending("removeWaybackToolbar", segs) : segs \in SeqsUpTo(ToolbarSegments, MaxSegments)}

\* removeWaybackToolbar(html) inside ModifyResponse
RemoveToolbar ==
    /\ call.fn = "removeWaybackToolbar"
    /\ ~call.done
    /\ call' = Let(removeWaybackToolbar(Flatten(call.arg)), LAMBDA r :
                   [call EXCEPT !.done = TRUE, !.panic = r.panic, !.out = r.html])
    /\ UNCHANGED <<maxRetries, retryDelay, served, pc, req, targetURL, attempt, shouldRetry,
                   lastErr, recorder, loaded, w, crashed, lookups, sleeps, attempts,
                   resolution, outside>>

\* most parameters of a query
MaxParams == 2

\* https://other.example/page, percent-encoded
OtherPageEscaped ==
    <<"h","t","t","p","s","%","3","A","%","2","F","%","2","F","o","t","h","e","r",".","e","x",
      "a","m","p","l","e","%","2","F","p","a","g","e">>

\* a parameter: its name, its value as written in the query, and the value meant
Param(name, raw, value) == [name |-> name, raw |-> raw, value |-> value]

\* three of the candidate names, and one that is no candidate
ParamNames == {redirectParams[1], redirectParams[3], redirectParams[14], <<"x">>}

Params ==
    {Param(n, v[1], v[2]) :
        n \in ParamNames,
        v \in {<<OtherPage, OtherPage>>, <<OtherPageEscaped, OtherPage>>,
               <<<<"/","h","o","m","e">>, <<"/","h","o","m","e">>>>,
               <<<<"f","o","o">>, <<"f","o","o">>>>, <<<<>>, <<>>>>}}

\* the URLs the parameters are appended to: what is before the "?", with the
\* scheme and host it has, and whether url.Parse accepts it
Bases ==
    {[text |-> HttpPrefix \o ExampleCom \o <<"/","l","o","g","i","n">>,
      scheme |-> Http, host |-> ExampleCom, ok |-> TRUE],
     [text |-> <<"/","l","o","g","i","n">>, scheme |-> <<>>, host |-> <<>>, ok |-> TRUE],
     [text |-> HttpPrefix \o <<"e","x"," ","a",".","c","o","m","/">>,
      scheme |-> <<>>, host |-> <<>>, ok |-> FALSE]}

\* queries: parameters with distinct names
Queries ==
    {q \in SeqsUpTo(Params, MaxParams) :
        \A i, j \in 1..Len(q) : i # j => q[i].name # q[j].name}

ExtractCalls ==
    {Pending("extractRedirectURL", [base |-> b, query |-> q]) : b \in Bases, q \in Queries}

\* the URL as the client writes it
RawURL(u) ==
    u.base.text
      \o (IF u.query = <<>> THEN <<>>
          ELSE <<"?">> \o Join([i \in 1..Len(u.query) |->
                                   u.query[i].name \o <<"=">> \o u.query[i].raw], <<"&">>))

\* extractRedirectURL(originalURL)
ExtractRedirect ==
    /\ call.fn = "extractRedirectURL"
    /\ ~call.done
    /\ call' = [call EXCEPT !.done = TRUE, !.out = extractRedirectURL(RawURL(call.arg))]
    /\ UNCHANGED <<maxRetries, retryDelay, served, pc, req, targetURL, attempt, shouldRetry,
                   lastErr, recorder, loaded, w, crashed, lookups, sleeps, attempts,
                   resolution, outside>>

\* the opening tag of a card-image block
CardOpen == DivOpen \o <<" ">> \o ClassCardImage

\* bodies for the screenshot strip: text, a line feed, the two tags
CardSegments == {<<"a">>, <<"\n">>, CardOpen, DivClose}

CardCalls ==
    {Pending("ReplaceAllString", segs) : segs \in SeqsUpTo(CardSegments, MaxSegments)}

\* re.ReplaceAllString(html, ...) inside the fixed-origin ModifyResponse
StripScreenshots ==
    /\ call.fn = "ReplaceAllString"
    /\ ~call.done
    /\ call' = [call EXCEPT !.done = TRUE, !.out = ReplaceAllCardImage(Flatten(call.arg))]
    /\ UNCHANGED <<maxRetries, retryDelay, served, pc, req, targetURL, attempt, shouldRetry,
                   lastErr, recorder, loaded, w, crashed, lookups, sleeps, attempts,
                   resolution, outside>>

\* one call of one of the functions, on an argument of the input sets
InitPure ==
    /\ maxRetries = MaxRetriesFlag
    /\ Started
    /\ \/ call \in ToolbarCalls
       \/ call \in ExtractCalls
       \/ call \in CardCalls

NextPure == RemoveToolbar \/ ExtractRedirect \/ StripScreenshots

SpecPure == InitPure /\ [][NextPure]_vars

\* ------------------------------------------------------- a long-running process
\* requests served by the long-running process
MaxBackoffRequests == 18

\* the process as started with the default flags
InitBackoff ==
    /\ maxRetries = MaxRetriesFlag
    /\ call = NoCall
    /\ Started

\* one handler at a time, requests for the fixed origin while it is unreachable
BackoffNext == Step(1, {ReqGeocities}, {CdxDown}, {UpstreamDown}, MaxBackoffRequests)

SpecBackoff == InitBackoff /\ [][BackoffNext]_vars

\* ------------------------------------------------- the two retry loops, alone
\* what one attempt leaves behind: the recorder's status code, and whether the
\* proxy call panicked and was recovered
Outcomes == [code : {200, 302, 404, 502}, panic : BOOLEAN]

\* the locals of a retry loop before its first iteration, with the shared delay
LoopStart(delay) ==
    [retryDelay |-> delay, attempts |-> 0, sleeps |-> <<>>, shouldRetry |-> FALSE,
     lastErr |-> <<>>, recorder |-> NilRecorder, final |-> "none"]

\* the back-off at the head of an iteration after the first; both loops have it
LoopBackoff(n, s) ==
    IF n > 0 THEN [s EXCEPT !.sleeps = Append(@, s.retryDelay),
                            !.retryDelay = Int64Double(s.retryDelay)]
    ELSE s

\* the proxy call of an iteration with outcome o: a new recorder, and lastErr set
\* by the deferred recover
LoopServe(s, o) ==
    [s EXCEPT !.attempts = @ + 1,
              !.recorder = [NewRecorder EXCEPT !.Code = o.code],
              !.lastErr = IF o.panic THEN <<"proxy panic">> ELSE @]

\* a success test that leaves the redirects out
SuccessBelow300(code) == code >= 200 /\ code < 300

\* line 271: HTTP 200-399 are all valid responses (including redirects)
GeocitiesSuccess(code) == code >= 200 /\ code < 400

\* line 289: only retry on connection-related errors
GeocitiesRetryable(code) == code = 502 \/ Contains(ResultStatus(code), ConnectionRefused)

\* lines 305-320: the final result of the fixed-origin loop
GeocitiesFinal(s) ==
    IF s.shouldRetry /\ s.lastErr # <<>> THEN [s EXCEPT !.final = "synthetic 502"]
    ELSE IF ~s.recorder.nil THEN [s EXCEPT !.final = "upstream"]
    ELSE IF s.lastErr = <<>> THEN [s EXCEPT !.final = "fault"]
    ELSE [s EXCEPT !.final = "synthetic 500"]

\* lines 247-303: the fixed-origin loop from iteration n on, with max attempts
\* and the outcomes of the attempts
RECURSIVE GeocitiesLoop(_, _, _, _)
GeocitiesLoop(n, max, s, outcomes) ==
    IF ~(n < max) THEN GeocitiesFinal(s)
    ELSE Let(LoopServe(LoopBackoff(n, s), outcomes[n + 1]), LAMBDA t :
             IF GeocitiesSuccess(t.recorder.Code) THEN [t EXCEPT !.final = "upstream"]
             ELSE IF GeocitiesRetryable(t.recorder.Code)
             THEN GeocitiesLoop(n + 1, max,
                                [t EXCEPT !.lastErr = <<"proxy returned status">>,
                                          !.shouldRetry = TRUE], outcomes)
             ELSE GeocitiesFinal([t EXCEPT !.lastErr = <<"proxy returned status">>]))

\* lines 479-492: the final result of the archive-mode loop
ArchiveFinal(s) ==
    IF s.shouldRetry /\ s.lastErr # <<>> THEN [s EXCEPT !.final = "synthetic 502"]
    ELSE IF ~s.recorder.nil THEN [s EXCEPT !.final = "upstream"]
    ELSE IF s.lastErr = <<>> THEN [s EXCEPT !.final = "fault"]
    ELSE [s EXCEPT !.final = "synthetic 500"]

\* lines 433-477: the archive-mode loop from iteration n on
RECURSIVE ArchiveLoop(_, _, _, _)
ArchiveLoop(n, max, s, outcomes) ==
    IF ~(n < max) THEN ArchiveFinal(s)
    ELSE Let(LoopServe(LoopBackoff(n, s), outcomes[n + 1]), LAMBDA t :
             IF IsSuccess(t.recorder.Code) THEN [t EXCEPT !.final = "upstream"]
             ELSE IF IsRetryable(t.recorder.Code)
             THEN ArchiveLoop(n + 1, max,
                              [t EXCEPT !.lastErr = <<"proxy returned status">>,
                                        !.shouldRetry = TRUE], outcomes)
             ELSE ArchiveFinal([t EXCEPT !.lastErr = <<"proxy returned status">>]))

\* a run of each loop: the shared delay at the start, and an outcome for every
\* attempt the loops may make
LoopCalls ==
    {Pending("retry loops", [delay |-> d, outcomes |-> os]) :
        d \in {DefaultRetryDelay, Int64Double(DefaultRetryDelay)},
        os \in [1..MaxRetriesFlag -> Outcomes]}

\* each loop run on its own from the same start
RunLoops ==
    /\ call.fn = "retry loops"
    /\ ~call.done
    /\ call' = [call EXCEPT
                   !.done = TRUE,
                   !.out = [geocities |-> GeocitiesLoop(0, maxRetries,
                                                        LoopStart(call.arg.delay),
                                                        call.arg.outcomes),
                            archive |-> ArchiveLoop(0, maxRetries,
                                                    LoopStart(call.arg.delay),
                                                    call.arg.outcomes)]]
    /\ UNCHANGED <<maxRetries, retryDelay, served, pc, req, targetURL, attempt, shouldRetry,
                   lastErr, recorder, loaded, w, crashed, lookups, sleeps, attempts,
                   resolution, outside>>

InitLoops ==
    /\ maxRetries \in 0..MaxRetriesFlag
    /\ Started
    /\ call \in LoopCalls

SpecLoops == InitLoops /\ [][RunLoops]_vars

\* ---------------------------------------------------------- the properties
Last(s) == s[Len(s)]

\* a terminal-failure status: outside [200,400) and not 502
Terminal(code) == ~(code >= 200 /\ code < 400) /\ code # 502

\* the handler is inside the retry loop
InLoop(h) == pc[h] \in {"sleep", "load", "store", "serve"}

\* the response of the handler's last attempt, as a client would receive it
LastResponse(h) ==
    [Code |-> recorder[h].Code, Header |-> recorder[h].Header, Body |-> recorder[h].Body]

\* the synthetic 502 that names maxRetries attempts
Synthetic502(h) == HttpError(FailedToConnect(IsGeocities[req[h]]), 502)

\* d doubled k times
RECURSIVE Doubled(_, _)
Doubled(d, k) == IF k = 0 THEN d ELSE Int64Double(Doubled(d, k - 1))

\* C1: when a 502 on some attempt is followed by a terminal failure on a later
\* attempt of the same request, the client receives that last upstream response
\* (status, headers, body), not a synthetic 502.
C1_LastAttemptDecides ==
    \A h \in Handlers :
        (/\ pc[h] = "done"
         /\ Len(attempts[h]) >= 2
         /\ \E i \in 1..Len(attempts[h]) - 1 : attempts[h][i].code = 502
         /\ Terminal(Last(attempts[h]).code)
         /\ ~Last(attempts[h]).panic)
        => w[h] = <<LastResponse(h)>>

\* C2: the process-wide retry delay has its startup value after any sequence of
\* requests, and every request's sleeps are the doubling sequence from the
\* configured initial delay, whatever other requests do.
C2_BackoffIsPerRequest ==
    /\ retryDelay = DefaultRetryDelay
    /\ \A h \in Handlers : \A i \in 1..Len(sleeps[h]) :
           sleeps[h][i] = Doubled(DefaultRetryDelay, i - 1)

\* C3: an attempt whose forwarding call panics is a retryable failure: the panic
\* does not leave the handler, no response is delivered on the strength of that
\* attempt (only the synthetic 502 once no attempt remains), and a further
\* attempt follows whenever attempts remain.
C3_PanicIsRetryable ==
    \A h \in Handlers :
        (attempts[h] # <<>> /\ Last(attempts[h]).panic)
        => /\ ~crashed[h]
           /\ w[h] = <<>> \/ w[h] = <<Synthetic502(h)>>
           /\ InLoop(h) \/ Len(attempts[h]) = maxRetries

\* C4: the forwarder ends by delivering exactly one response and never by an
\* unhandled fault, for every maxRetries including 0; when no attempt was made
\* the response is a synthetic 500.
C4_AlwaysOneResponse ==
    \A h \in Handlers :
        pc[h] = "done"
        => /\ ~crashed[h]
           /\ Len(w[h]) = 1
           /\ (attempts[h] = <<>> /\ maxRetries = 0) => w[h][1].Code = 500

\* C5: for maxRetries = N >= 1 and an upstream that answers 502 on every
\* attempt, the request makes exactly N attempts, sleeps exactly N-1 times for
\* delay, 2*delay, 4*delay, ... from the configured initial delay, and ends with
\* the synthetic 502 that names N attempts.
C5_AlwaysBadGateway ==
    \A h \in Handlers :
        (/\ maxRetries >= 1
         /\ attempts[h] # <<>>
         /\ \A i \in 1..Len(attempts[h]) : attempts[h][i].code = 502)
        => /\ Len(attempts[h]) <= maxRetries
           /\ Len(sleeps[h]) \in {Len(attempts[h]) - 1, Len(attempts[h])}
           /\ \A i \in 1..Len(sleeps[h]) : sleeps[h][i] = Doubled(DefaultRetryDelay, i - 1)
           /\ pc[h] = "done"
              => /\ Len(attempts[h]) = maxRetries
                 /\ Len(sleeps[h]) = maxRetries - 1
                 /\ w[h] = <<Synthetic502(h)>>

\* C6: when the first attempt returns a terminal-failure status, exactly one
\* attempt is made, no sleep occurs, and the client receives that attempt's
\* response: its status and its body as they are.
C6_TerminalFirstAttempt ==
    \A h \in Handlers :
        (attempts[h] # <<>> /\ Terminal(attempts[h][1].code) /\ ~attempts[h][1].panic)
        => /\ Len(attempts[h]) = 1
           /\ sleeps[h] = <<>>
           /\ recorder[h].Code = attempts[h][1].code
           /\ \/ pc[h] = "final" /\ w[h] = <<>>
              \/ pc[h] = "done" /\ w[h] = <<LastResponse(h)>>

\* a 404 on the first of several allowed attempts went to the client
C6_Witness ==
    \E h \in Handlers :
        /\ maxRetries >= 2
        /\ pc[h] = "done"
        /\ Len(attempts[h]) = 1 /\ attempts[h][1].code = 404 /\ ~attempts[h][1].panic
        /\ Len(w[h]) = 1 /\ w[h][1].Code = 404 /\ w[h][1].Body = <<"n", "o">>

\* C7: as soon as an attempt returns a status in [200,400) the forwarder stops:
\* that attempt is the last, one sleep was made per earlier attempt and none
\* after, and the client has that attempt's status, headers and body, however
\* many retryable failures came before.
C7_SuccessStops ==
    \A h \in Handlers : \A i \in 1..Len(attempts[h]) :
        (attempts[h][i].code >= 200 /\ attempts[h][i].code < 400 /\ ~attempts[h][i].panic)
        => /\ i = Len(attempts[h])
           /\ Len(sleeps[h]) = i - 1
           /\ pc[h] = "done"
           /\ recorder[h].Code = attempts[h][i].code
           /\ w[h] = <<LastResponse(h)>>

\* a 302 after two 502s went to the client
C7_Witness ==
    \E h \in Handlers :
        /\ pc[h] = "done"
        /\ Len(attempts[h]) = 3
        /\ attempts[h][1].code = 502 /\ attempts[h][2].code = 502
        /\ attempts[h][3].code = 302 /\ ~attempts[h][3].panic
        /\ Len(sleeps[h]) = 2
        /\ Len(w[h]) = 1 /\ w[h][1].Code = 302

\* the resolver fails on the CDX answer: transport error, non-200 status, a body
\* that is no array of at least 2 rows, or a second row that is no array of at
\* least 2 elements with a string second
ResolverFails(cdx) ==
    \/ cdx.kind = "error"
    \/ cdx.kind = "reply"
         /\ \/ cdx.code # 200
            \/ cdx.json.t # "array"
            \/ Len(cdx.json.a) < 2
            \/ cdx.json.a[2].t # "array"
            \/ Len(cdx.json.a[2].a) < 2
            \/ cdx.json.a[2].a[2].t # "string"

\* C8: in archive mode, when the resolver fails the client receives a 500 that
\* names the failure, no forwarding attempt and no sleep is made for the
\* request, and the resolver was called once.
C8_ResolverFailure ==
    \A h \in Handlers :
        (lookups[h] # <<>> /\ ResolverFails(cdxResp[h]))
        => /\ pc[h] = "done"
           /\ ~err[h].nil /\ err[h].msg # <<>>
           /\ w[h] = <<[Code |-> 500,
                        Header |-> Header(<<"text/plain; charset=utf-8">>, <<>>, <<>>),
                        Body |-> <<"Error finding archived version: ">> \o err[h].msg
                                   \o <<"\n">>]>>
           /\ attempts[h] = <<>>
           /\ sleeps[h] = <<>>
           /\ Len(lookups[h]) = 1

\* the CDX server answered 503 to the lookup of a redirect target
C8_Witness ==
    \E h \in Handlers :
        /\ maxRetries >= 1
        /\ pc[h] = "done"
        /\ req[h] = ReqRedirect
        /\ lookups[h] = <<OtherPage>>
        /\ cdxResp[h] = CdxReply(503, JNull)
        /\ Len(w[h]) = 1 /\ w[h][1].Code = 500 /\ attempts[h] = <<>>

\* the inbound URL, whether it is in archive form, and the absolute URL that the
\* first redirect parameter of its query carries (<<>> when none does)
Inbound == [r \in Requests \cup {NoRequest} |-> urlString(r.URL)]

ArchiveForm == [r \in Requests \cup {NoRequest} |-> HasPrefix(Inbound[r], WaybackPrefix)]

Carried ==
    [r \in Requests \cup {NoRequest} |->
        Let(parseQuery(r.URL.RawQuery), LAMBDA query :
        Let({i \in 1..Len(redirectParams) : looksLikeURL(Get(query, redirectParams[i]))},
            LAMBDA hits :
            IF hits = {} THEN <<>>
            ELSE Get(query, redirectParams[CHOOSE i \in hits : \A j \in hits : i <= j])))]

\* C9: in archive mode, for an inbound URL in archive form: when the wrapped
\* destination carries a redirect parameter with an absolute URL, the resolver
\* is called with exactly that URL and the target is the resolver's result;
\* when it carries none, the resolver is not called and the target is the
\* inbound URL unchanged.
C9_ArchiveFormReentry ==
    \A h \in Handlers :
        (pc[h] # "idle" /\ ArchiveForm[req[h]])
        => IF Carried[req[h]] # <<>>
           THEN /\ lookups[h] = <<Carried[req[h]]>>
                /\ cdxResp[h] = CdxFound
                   => waybackURL[h] = WaybackPrefix \o Timestamp14 \o <<"/">>
                                        \o Carried[req[h]]
           ELSE /\ lookups[h] = <<>>
                /\ waybackURL[h] = Inbound[req[h]]

\* C10: when the resolver succeeds for destination D, the archive URL is
\* "http://web.archive.org/web/" + S + "/" + D for S the second element of the
\* second row of the CDX answer, and S is a string of 14 digits.
C10_ArchiveURLShape ==
    \A h \in Handlers :
        (lookups[h] # <<>> /\ err[h].nil)
        => LET S == cdxResp[h].json.a[2].a[2].s
           IN  /\ waybackURL[h] = WaybackPrefix \o S \o <<"/">> \o lookups[h][1]
               /\ Len(S) = 14
               /\ \A i \in 1..Len(S) : S[i] \in Digits

\* the 1-based position of the first x in segs, or 0
First(segs, x) ==
    IF \E i \in 1..Len(segs) : segs[i] = x
    THEN CHOOSE i \in 1..Len(segs) : segs[i] = x /\ \A j \in 1..(i - 1) : segs[j] # x
    ELSE 0

\* segs without its elements x
RECURSIVE Without(_, _)
Without(segs, x) ==
    IF segs = <<>> THEN <<>>
    ELSE (IF Head(segs) = x THEN <<>> ELSE <<Head(segs)>>) \o Without(Tail(segs), x)

\* C11: toolbar strip is the identity on a body with only one of the two
\* markers; on a body where the first begin marker precedes the first end
\* marker the output is the input without the bytes from the first byte of the
\* begin marker to the last byte of the end marker, all other bytes kept (the
\* script tags, which the function removes afterwards, aside).  Stated for the
\* calls that return.
C11_ToolbarSpanRemoved ==
    (call.fn = "removeWaybackToolbar" /\ call.done /\ ~call.panic)
    => LET b == First(call.arg, BeginToolbar)
           e == First(call.arg, EndToolbar)
       IN  /\ (b = 0 /\ e # 0) \/ (b # 0 /\ e = 0)
              => call.out = Flatten(Without(call.arg, scriptTag))
           /\ (b # 0 /\ b < e)
              => call.out = Flatten(Without(SubSeq(call.arg, 1, b - 1)
                                              \o SubSeq(call.arg, e + 1, Len(call.arg)),
                                            scriptTag))

StartsWith(v, p) == Len(v) >= Len(p) /\ \A i \in 1..Len(p) : v[i] = p[i]

\* the candidate's value qualifies: an absolute http(s) URL or an absolute path
Qualifies(v) ==
    \/ StartsWith(v, <<"h","t","t","p",":","/","/">>)
    \/ StartsWith(v, <<"h","t","t","p","s",":","/","/">>)
    \/ StartsWith(v, <<"/">>)

\* the positions in the candidate order of the parameters of q that qualify
Qualifying(q) ==
    {k \in 1..Len(redirectParams) :
        \E i \in 1..Len(q) : q[i].name = redirectParams[k] /\ Qualifies(q[i].value)}

\* the value of the parameter of q named by candidate k
ValueOf(q, k) == q[CHOOSE i \in 1..Len(q) : q[i].name = redirectParams[k]].value

\* C12: extractRedirectURL returns the value of the first parameter, in the
\* candidate order, whose value starts with http:// or https:// (as is) or with
\* / (after the input's scheme://host); other candidates are skipped; when none
\* qualifies or the URL does not parse, it returns its input.
C12_FirstCandidate ==
    (call.fn = "extractRedirectURL" /\ call.done)
    => LET u == call.arg
           hits == Qualifying(u.query)
           k == CHOOSE x \in hits : \A y \in hits : x <= y
       IN  IF ~u.base.ok \/ hits = {} THEN call.out = RawURL(u)
           ELSE IF ValueOf(u.query, k)[1] = "/"
           THEN call.out = u.base.scheme \o <<":", "/", "/">> \o u.base.host
                             \o ValueOf(u.query, k)
           ELSE call.out = ValueOf(u.query, k)

\* target=/home&redirect=<escaped https URL>: the later parameter is first in the
\* candidate order and is returned decoded
C12_Witness ==
    /\ call.fn = "extractRedirectURL" /\ call.done
    /\ call.arg.base.ok
    /\ Len(call.arg.query) = 2
    /\ call.arg.query[1].name = redirectParams[14]
    /\ call.arg.query[1].value = <<"/","h","o","m","e">>
    /\ call.arg.query[2].name = redirectParams[1]
    /\ call.arg.query[2].raw = OtherPageEscaped
    /\ call.out = OtherPage

\* segs with every card-image block, from an opening tag to the first closing
\* tag after it, replaced by the comment
RECURSIVE WithoutCards(_)
WithoutCards(segs) ==
    IF segs = <<>> THEN <<>>
    ELSE IF Head(segs) = CardOpen /\ First(Tail(segs), DivClose) # 0
    THEN <<ScreenshotRemoved>>
           \o WithoutCards(SubSeq(segs, First(Tail(segs), DivClose) + 2, Len(segs)))
    ELSE <<Head(segs)>> \o WithoutCards(Tail(segs))

\* C15: in fixed-origin mode every card-image block of an HTML body, from the
\* opening <div class="card-image"> to the first </div> after it, whatever lies
\* between, line feeds included, is replaced by the comment; an opening tag
\* with no closing tag after it stays.
C15_EveryCardImageRemoved ==
    (call.fn = "ReplaceAllString" /\ call.done)
    => call.out = Flatten(WithoutCards(call.arg))

\* C19: removeWaybackToolbar never faults, whatever the body.
C19_ToolbarNeverFaults ==
    (call.fn = "removeWaybackToolbar" /\ call.done) => ~call.panic

\* the request's Host names the fixed origin or a host under it
NamesGeocities(host) ==
    \E i \in 1..Len(host) : StartsWith(SubSeq(host, i, Len(host)), GeocitiesHost)

\* C13: the mode depends on the Host alone.  A request whose Host contains
\* geocities.restorativland.org never reaches the archive resolver and is sent
\* to https://geocities.restorativland.org with the inbound path (or "/" when
\* empty) and raw query; every other request is resolved in archive mode.
C13_ModeByHost ==
    \A h \in Handlers :
        req[h] # NoRequest
        => IF NamesGeocities(req[h].Host)
           THEN /\ lookups[h] = <<>>
                /\ cdxResp[h] = NoCdx
                /\ targetURL[h].Scheme = <<"h","t","t","p","s">>
                /\ targetURL[h].Host = GeocitiesHost
                /\ targetURL[h].Path
                     = (IF req[h].URL.Path = <<>> THEN <<"/">> ELSE req[h].URL.Path)
                /\ targetURL[h].RawQuery = req[h].URL.RawQuery
           ELSE /\ lookups[h] # <<>> \/ waybackURL[h] = Inbound[req[h]]
                /\ \/ targetURL[h] = NoURL
                   \/ targetURL[h].Scheme = Http /\ targetURL[h].Host = WebArchiveOrg

\* http://www.geocities.restorativland.org?q=1 was forwarded to the fixed origin
C13_Witness ==
    \E h \in Handlers :
        /\ req[h] = ReqGeocitiesRoot
        /\ attempts[h] # <<>>
        /\ targetURL[h].Path = <<"/">>
        /\ targetURL[h].RawQuery = <<"q","=","1">>
        /\ lookups[h] = <<>>

\* the client of handler h has received the response of an upstream attempt
\* whose content type contains text/html
DeliveredHTML(h) ==
    /\ pc[h] = "done"
    /\ upstream[h].kind = "reply"
    /\ ~upstream[h].res.BodyErr
    /\ Contains(upstream[h].res.Header.ContentType, TextHTML)
    /\ w[h] # <<>>
    /\ Last(w[h]) = CopyRecorder(recorder[h])

\* C14: every response delivered to the client from an upstream attempt whose
\* content type contains text/html carries a Content-Length equal to the byte
\* length of the body delivered, and the other upstream headers unchanged.
C14_ContentLengthOfDelivered ==
    \A h \in Handlers :
        DeliveredHTML(h)
        => /\ Last(w[h]).Header.ContentLength = Itoa(Len(Last(w[h]).Body))
           /\ Last(w[h]).Header.ContentType = upstream[h].res.Header.ContentType
           /\ Last(w[h]).Header.Location = upstream[h].res.Header.Location

\* C16: a request gets at most maxRetries forwarding attempts, the first
\* included, and every attempt that was followed by another one was a
\* retryable failure (a 502).
C16_AttemptsBounded ==
    \A h \in Handlers :
        /\ Len(attempts[h]) <= maxRetries
        /\ \A k \in 1..(Len(attempts[h]) - 1) : attempts[h][k].code = 502

\* the budget of three attempts was used up by three 502s
C16_Witness ==
    \E h \in Handlers :
        /\ maxRetries = MaxRetriesFlag
        /\ Len(attempts[h]) = MaxRetriesFlag
        /\ \A k \in 1..MaxRetriesFlag : attempts[h][k].code = 502
        /\ pc[h] = "done"

\* C17: whenever a forwarding attempt is made, the target has a scheme and a
\* host.  In fixed-origin mode it is https://geocities.restorativland.org; in
\* archive mode it is the resolver's result or, when no lookup was made, the
\* inbound URL, which then begins with http://web.archive.org/web/.
C17_TargetHasSchemeAndHost ==
    \A h \in Handlers :
        (InLoop(h) \/ attempts[h] # <<>>)
        => /\ targetURL[h].Scheme # <<>>
           /\ targetURL[h].Host # <<>>
           /\ IF NamesGeocities(req[h].Host)
              THEN /\ targetURL[h].Scheme = <<"h","t","t","p","s">>
                   /\ targetURL[h].Host = GeocitiesHost
              ELSE /\ targetURL[h].Scheme = Http
                   /\ targetURL[h].Host = WebArchiveOrg
                   /\ StartsWith(waybackURL[h], WaybackPrefix)
                   /\ IF lookups[h] = <<>>
                      THEN /\ waybackURL[h] = Inbound[req[h]]
                           /\ StartsWith(Inbound[req[h]], WaybackPrefix)
                      ELSE /\ cdxResp[h].kind = "reply"
                           /\ waybackURL[h]
                                = WaybackPrefix \o cdxResp[h].json.a[2].a[2].s
                                    \o <<"/">> \o lookups[h][1]

\* an attempt was made for an origin-form request to the fixed origin
C17_Witness ==
    \E h \in Handlers :
        /\ attempts[h] # <<>>
        /\ req[h] = ReqGeocities
        /\ targetURL[h].Host = GeocitiesHost

\* C18: once the inbound client of a request that has had a forwarding attempt
\* is disconnected, the handler starts no further forwarding attempt and no
\* further backoff sleep for that request.
C18_DisconnectStops ==
    [][\A h \in Handlers :
           (disconnected[h] /\ attempts[h] # <<>>)
           => /\ Len(attempts'[h]) <= Len(attempts[h])
              /\ Len(sleeps'[h]) <= Len(sleeps[h])]_vars

\* a < b for Durations that are not negative
Int64Less(a, b) ==
    \E i \in 1..4 : a[i] < b[i] /\ \A j \in (i + 1)..4 : a[j] = b[j]

\* C20: every backoff sleep, in any request after any number of earlier retries
\* of the process, lasts a strictly positive duration of at least the initial
\* delay: the doubling never wraps to a negative value or to zero.
C20_SleepsArePositive ==
    \A h \in Handlers :
        \A i \in 1..Len(sleeps[h]) :
            /\ ~Int64IsNegative(sleeps[h][i])
            /\ ~Int64IsZero(sleeps[h][i])
            /\ ~Int64Less(sleeps[h][i], DefaultRetryDelay)

\* C21: the fixed-origin loop and the archive-mode loop are equivalent.  For the
\* same maximum of attempts, the same starting delay and the same outcomes of
\* the attempts, they make the same number of attempts and the same sleeps,
\* leave the shared delay at the same value, and end with the same kind of final
\* response.
C21_LoopsEquivalent ==
    (call.fn = "retry loops" /\ call.done)
    => /\ call.out.geocities.attempts = call.out.archive.attempts
       /\ call.out.geocities.sleeps = call.out.archive.sleeps
       /\ call.out.geocities.retryDelay = call.out.archive.retryDelay
       /\ call.out.geocities.final = call.out.archive.final

\* both loops retried a 502 (the second attempt panicking), slept twice and
\* ended on a redirect, which both hand to the client
C21_Witness ==
    /\ call.fn = "retry loops" /\ call.done
    /\ maxRetries = MaxRetriesFlag
    /\ call.arg.delay = DefaultRetryDelay
    /\ call.arg.outcomes[1] = [code |-> 502, panic |-> FALSE]
    /\ call.arg.outcomes[2] = [code |-> 502, panic |-> TRUE]
    /\ call.arg.outcomes[3].code = 302
    /\ call.out.geocities.attempts = 3
    /\ call.out.archive.sleeps = <<DefaultRetryDelay, Int64Double(DefaultRetryDelay)>>
    /\ call.out.geocities.final = "upstream"

====
